---- MODULE Spec2Model ----
(***************************************************************************)
(* Model of the air-quality pipeline: data_prepare.py (ingestion) and      *)
(* app.py (presentation).                                                  *)
(*                                                                         *)
(* Conventions                                                             *)
(*   - a Python str is a sequence of one-character strings;                *)
(*   - a missing value (None / NaN / NaT) is the empty tuple <<>> and a    *)
(*     present value v is the one-element tuple <<v>>;                     *)
(*   - a present cell is a record whose single field names its type:       *)
(*     [str |-> chars], [int |-> n], [ts |-> [y, m, d, h]],                *)
(*     [date |-> [y, m, d]].                                               *)
(***************************************************************************)
EXTENDS Integers, Sequences, FiniteSets, TLC

\* --- column-apply of the two extract_station_id functions ---
VARIABLES xpc,           \* "build" | "applied"
    station,        \* the station column: a sequence of optional str cells
    ing_station_id, \* data["station"].apply(extract_station_id)  (data_prepare.py)
    app_station_id, \* df["station"].apply(extract_station_id)    (app.py)
    ing_name,       \* data["station_id"].map(station_names)      (data_prepare.py)
    budget,         \* fragments still available to build the last station code
    \* --- ingestion run (data_prepare.py) ---
    ipc,            \* position of the script
    archive,        \* ParquetFiles.zip: whether it opens, and its table files
    files,          \* list(RAW_DIR.rglob("*.parquet"))
    fi,             \* index of the next file of the loading loop
    dfs,            \* the tables loaded so far
    outcome,        \* per file already visited: whether pd.read_parquet succeeded
    concatenated,   \* data as of line 40 (pd.concat)
    data,           \* the working table
    saved,          \* data_combined.parquet / data_combined.csv
    \* --- presentation session (app.py) ---
    apc,            \* position of the script run
    parquet,        \* contents of data_combined.parquet
    df,             \* cached result of load_data()
    STATION_NAMES,  \* the station directory of app.py
    sel,            \* widget state: pollutant_sel, stations_sel, date_from, date_to
    df_filt,        \* the filtered subset
    heat_df,        \* the station x date aggregate
    views,          \* what the current run has rendered
    rerun           \* whether the script has run before in this session

xvars == <<xpc, station, ing_station_id, app_station_id, ing_name, budget>>
ivars == <<ipc, archive, files, fi, dfs, outcome, concatenated, data, saved>>
avars == <<apc, parquet, df, STATION_NAMES, sel, df_filt, heat_df, views, rerun>>
vars == <<xvars, ivars, avars>>

-----------------------------------------------------------------------------
(* Optional values and text                                                *)

None == <<>>
Some(v) == <<v>>
IsNone(o) == o = <<>>
Get(o) == o[1]

StrCell(chars) == [str |-> chars]
IntCell(n) == [int |-> n]

\* the character classes of the regular expressions
UpperSeq == <<"A","B","C","D","E","F","G","H","I","J","K","L","M",
              "N","O","P","Q","R","S","T","U","V","W","X","Y","Z">>
LowerSeq == <<"a","b","c","d","e","f","g","h","i","j","k","l","m",
              "n","o","p","q","r","s","t","u","v","w","x","y","z">>
DigitSeq == <<"0","1","2","3","4","5","6","7","8","9">>
Range(f) == {f[i] : i \in DOMAIN f}
\* [A-Z]
ClassAZ == Range(UpperSeq)
\* \d of a str pattern: every Unicode decimal digit; "U+0663" stands for the
\* one-character string ARABIC-INDIC DIGIT THREE
ClassDigit == Range(DigitSeq) \cup {"U+0663"}

\* str.lower(), character by character
LowerChar(c) ==
    IF \E i \in DOMAIN UpperSeq : UpperSeq[i] = c
    THEN LowerSeq[CHOOSE i \in DOMAIN UpperSeq : UpperSeq[i] = c]
    ELSE c
Lower(s) == [i \in DOMAIN s |-> LowerChar(s[i])]

\* str.startswith(prefix)
StartsWith(s, prefix) ==
    /\ Len(prefix) <= Len(s)
    /\ SubSeq(s, 1, Len(prefix)) = prefix
\* `sub in s`
Contains(s, sub) ==
    \E i \in 1..(Len(s) - Len(sub) + 1) : SubSeq(s, i, i + Len(sub) - 1) = sub

\* str(n) of an integer n >= 0
RECURSIVE Decimal(_)
Decimal(n) ==
    IF n < 10 THEN <<DigitSeq[n + 1]>>
    ELSE Decimal(n \div 10) \o <<DigitSeq[(n % 10) + 1]>>


\* str(s) of a cell: the text itself, or "None" for a missing cell
S_None == <<"N","o","n","e">>
PyStr(cell) == IF IsNone(cell) THEN S_None ELSE Get(cell).str

-----------------------------------------------------------------------------
(* re.search with a fixed-length pattern: a pattern is a sequence of       *)
(* character classes, one per character, and a capture group is a span.    *)

MatchAt(p, s, i) ==
    /\ i + Len(p) - 1 <= Len(s)
    /\ \A k \in 1..Len(p) : s[i + k - 1] \in p[k]

\* leftmost match at or after i, 0 when there is none
RECURSIVE re_search(_, _, _)
re_search(p, s, i) ==
    IF i + Len(p) - 1 > Len(s) THEN 0
    ELSE IF MatchAt(p, s, i) THEN i
    ELSE re_search(p, s, i + 1)

\* m.group(1) for a group spanning pattern positions first..last
group(s, m, first, last) == SubSeq(s, m + first - 1, m + last - 1)

\* DE[A-Z]{2}\d{3}
IdClasses == <<{"D"}, {"E"}, ClassAZ, ClassAZ, ClassDigit, ClassDigit, ClassDigit>>
\* r"\.(DE[A-Z]{2}\d{3})"
IngestPattern == <<{"."}>> \o IdClasses
\* r"_(DE[A-Z]{2}\d{3})_"
AppPattern == <<{"_"}>> \o IdClasses \o <<{"_"}>>

\* the capture group of both patterns: pattern positions 2..8
GroupFirst == 2
GroupLast == 8

extract_station_id_ingest_group0(cell) ==
    LET s == PyStr(cell)
        m == re_search(IngestPattern, s, 1)
    IN  IF m = 0 THEN None ELSE Some(StrCell(group(s, m, 1, GroupLast)))

\* data_prepare.py: extract_station_id
extract_station_id_ingest(cell) ==
    LET s == PyStr(cell)
        m == re_search(IngestPattern, s, 1)
    IN  IF m = 0 THEN None ELSE Some(StrCell(group(s, m, GroupFirst, GroupLast)))

\* app.py: extract_station_id
extract_station_id_app(cell) ==
    LET s == PyStr(cell)
        m == re_search(AppPattern, s, 1)
    IN  IF m = 0 THEN None ELSE Some(StrCell(group(s, m, GroupFirst, GroupLast)))

-----------------------------------------------------------------------------
(* The station directory.  A directory name is one unit of text whose      *)
(* characters are never inspected; its non-ASCII letters are transliterated.*)

S_DEBE010 == <<"D","E","B","E","0","1","0">>
S_DEBE034 == <<"D","E","B","E","0","3","4">>
S_DEBE051 == <<"D","E","B","E","0","5","1">>
S_DEBE065 == <<"D","E","B","E","0","6","5">>
S_DEBE068 == <<"D","E","B","E","0","6","8">>

N_DEBE010 == StrCell(<<"Amrumer Strasse (Wedding, gorodskoj fon)">>)
N_DEBE034 == StrCell(<<"Nansenstrasse (Neukoelln, gorodskoj fon)">>)
N_DEBE051 == StrCell(<<"Buch / Hobrechtsfelder Chaussee (Pankow, prigorodnyj fon)">>)
N_DEBE065 == StrCell(<<"Frankfurter Allee (Friedrichshain, transportnaya stanciya)">>)
N_DEBE068 == StrCell(<<"Brueckenstrasse (Mitte, gorodskoj fon)">>)

\* a dict is a set of <<key, value>> pairs
\* data_prepare.py: station_names
station_names ==
    { <<StrCell(S_DEBE010), N_DEBE010>>,
      <<StrCell(S_DEBE034), N_DEBE034>>,
      <<StrCell(S_DEBE051), N_DEBE051>>,
      <<StrCell(S_DEBE065), N_DEBE065>>,
      <<StrCell(S_DEBE068), N_DEBE068>> }

\* app.py: STATION_NAMES as the module defines it
STATION_NAMES_literal ==
    { <<StrCell(S_DEBE010), N_DEBE010>>,
      <<StrCell(S_DEBE034), N_DEBE034>>,
      <<StrCell(S_DEBE051), N_DEBE051>>,
      <<StrCell(S_DEBE065), N_DEBE065>>,
      <<StrCell(S_DEBE068), N_DEBE068>> }

Keys(dict) == {kv[1] : kv \in dict}
Lookup(dict, k) == (CHOOSE kv \in dict : kv[1] = k)[2]

\* Series.map(dict) on one cell: the value of the key, NaN for a missing
\* cell and for a key the dict does not hold
MapCell(dict, cell) ==
    IF IsNone(cell) THEN None
    ELSE IF Get(cell) \in Keys(dict) THEN Some(Lookup(dict, Get(cell)))
    ELSE None

\* Series.fillna(other) on one cell
FillnaCell(cell, other) == IF IsNone(cell) THEN other ELSE cell

-----------------------------------------------------------------------------
(* Tables.  A table is [cols, rows]: cols is the sequence of column names  *)
(* and a row is [idx, cells], idx its index label and cells its cells in   *)
(* column order.                                                           *)

Row(idx, cells) == [idx |-> idx, cells |-> cells]

\* positions of the columns called name
ColumnsNamed(t, name) == {c \in DOMAIN t.cols : t.cols[c] = name}
\* `name in t.columns`
HasColumn(t, name) == ColumnsNamed(t, name) # {}
\* t[name] is a Series only when exactly one column has that name
IsSeries(t, name) == Cardinality(ColumnsNamed(t, name)) = 1
Col(t, name) == CHOOSE c \in DOMAIN t.cols : t.cols[c] = name
Cell(t, row, name) == row.cells[Col(t, name)]

\* t[name] = cells, one cell per row: the column is replaced when it exists
\* and appended as the last column when it does not
SetColumn(t, name, cells) ==
    IF HasColumn(t, name)
    THEN [t EXCEPT !.rows = [i \in DOMAIN t.rows |->
             [t.rows[i] EXCEPT !.cells[Col(t, name)] = cells[i]]]]
    ELSE [cols |-> Append(t.cols, name),
          rows |-> [i \in DOMAIN t.rows |->
             [t.rows[i] EXCEPT !.cells = Append(t.rows[i].cells, cells[i])]]]

C_source_file == <<"s","o","u","r","c","e","_","f","i","l","e">>
C_station == <<"s","t","a","t","i","o","n">>
C_pollutant == <<"p","o","l","l","u","t","a","n","t">>
C_value == <<"v","a","l","u","e">>
C_datetime_start == <<"d","a","t","e","t","i","m","e","_","s","t","a","r","t">>
C_datetime_end == <<"d","a","t","e","t","i","m","e","_","e","n","d">>
C_date == <<"d","a","t","e">>
C_year == <<"y","e","a","r">>
C_month == <<"m","o","n","t","h">>
C_station_id == <<"s","t","a","t","i","o","n","_","i","d">>
C_station_name == <<"s","t","a","t","i","o","n","_","n","a","m","e">>

-----------------------------------------------------------------------------
(* data_prepare.py, the file loading loop and pd.concat                    *)

\* df["source_file"] = path.name
TagSourceFile(file) ==
    SetColumn([cols |-> file.cols, rows |-> file.rows], C_source_file,
              [i \in DOMAIN file.rows |-> Some(StrCell(file.name))])

\* the union of the column names, in order of first appearance
RECURSIVE UnionColumns(_, _)
UnionColumns(tables, acc) ==
    IF tables = <<>> THEN acc
    ELSE LET new == SelectSeq(Head(tables).cols, LAMBDA c : c \notin Range(acc))
         IN  UnionColumns(Tail(tables), acc \o new)

\* the rows of one table laid out on the columns cols, NaN where the table
\* has no such column
Realign(t, cols) ==
    [i \in DOMAIN t.rows |->
        [c \in DOMAIN cols |->
            IF HasColumn(t, cols[c]) THEN Cell(t, t.rows[i], cols[c]) ELSE None]]

RECURSIVE ConcatCells(_, _)
ConcatCells(tables, cols) ==
    IF tables = <<>> THEN <<>>
    ELSE Realign(Head(tables), cols) \o ConcatCells(Tail(tables), cols)

RECURSIVE ConcatCellsReversed(_, _)
ConcatCellsReversed(tables, cols) ==
    IF tables = <<>> THEN <<>>
    ELSE ConcatCellsReversed(Tail(tables), cols) \o Realign(Head(tables), cols)

concat_reversed(tables) ==
    LET cols == UnionColumns(tables, <<>>)
        cells == ConcatCellsReversed(tables, cols)
    IN  [cols |-> cols, rows |-> [i \in DOMAIN cells |-> Row(i - 1, cells[i])]]

\* pd.concat(dfs, ignore_index=True)
concat(tables) ==
    LET cols == UnionColumns(tables, <<>>)
        cells == ConcatCells(tables, cols)
    IN  [cols |-> cols, rows |-> [i \in DOMAIN cells |-> Row(i - 1, cells[i])]]

-----------------------------------------------------------------------------
(* data_prepare.py, renaming                                               *)

rename_one_no_lower(col) ==
    IF StartsWith(col, <<"s","a","m","p","l","i","n","g","p","o","i","n","t">>) THEN C_station
    ELSE IF Contains(col, <<"p","o","l","l","u","t","a","n","t">>) THEN C_pollutant
    ELSE IF col = <<"v","a","l","u","e">> THEN C_value
    ELSE IF col = <<"s","t","a","r","t">> THEN C_datetime_start
    ELSE IF col = <<"e","n","d">> THEN C_datetime_end
    ELSE col

\* the new name of one column: rename_map[col], or col itself when the loop
\* has put no entry for it
rename_one(col) ==
    LET lower == Lower(col)
    IN  IF StartsWith(lower, <<"s","a","m","p","l","i","n","g","p","o","i","n","t">>) THEN C_station
        ELSE IF Contains(lower, <<"p","o","l","l","u","t","a","n","t">>) THEN C_pollutant
        ELSE IF lower = <<"v","a","l","u","e">> THEN C_value
        ELSE IF lower = <<"s","t","a","r","t">> THEN C_datetime_start
        ELSE IF lower = <<"e","n","d">> THEN C_datetime_end
        ELSE col

\* data.rename(columns=rename_map)
rename(t) == [t EXCEPT !.cols = [c \in DOMAIN t.cols |-> rename_one(t.cols[c])]]

-----------------------------------------------------------------------------
(* data_prepare.py, dates and values                                       *)

Ts(y, m, d, h) == [ts |-> [y |-> y, m |-> m, d |-> d, h |-> h]]
DateCell(y, m, d) == [date |-> [y |-> y, m |-> m, d |-> d]]

\* pd.to_datetime raises on text that is no timestamp; the only text the
\* model's start columns hold is such text
ToDatetimeRaises(cell) == ~IsNone(cell) /\ "str" \in DOMAIN Get(cell)
\* .dt.date, .dt.year, .dt.month of one timestamp cell; NaT gives NaT / NaN
DtDate(cell) ==
    IF IsNone(cell) THEN None
    ELSE Some(DateCell(Get(cell).ts.y, Get(cell).ts.m, Get(cell).ts.d))
DtYear(cell) == IF IsNone(cell) THEN None ELSE Some(IntCell(Get(cell).ts.y))
DtMonth(cell) == IF IsNone(cell) THEN None ELSE Some(IntCell(Get(cell).ts.m))

DigitValue(c) == (CHOOSE i \in DOMAIN DigitSeq : DigitSeq[i] = c) - 1
IsAsciiDigits(s) == s # <<>> /\ \A i \in DOMAIN s : s[i] \in Range(DigitSeq)
RECURSIVE DigitsValue(_)
DigitsValue(s) ==
    IF s = <<>> THEN 0
    ELSE 10 * DigitsValue(SubSeq(s, 1, Len(s) - 1)) + DigitValue(s[Len(s)])

\* pd.to_numeric(..., errors="coerce") on one cell: a number stays, text that
\* spells an integer becomes it, anything else becomes NaN
to_numeric(cell) ==
    IF IsNone(cell) THEN None
    ELSE IF "int" \in DOMAIN Get(cell) THEN cell
    ELSE IF "str" \in DOMAIN Get(cell) THEN
        LET s == Get(cell).str
        IN  IF IsAsciiDigits(s) THEN Some(IntCell(DigitsValue(s)))
            ELSE IF s # <<>> /\ Head(s) = "-" /\ IsAsciiDigits(Tail(s))
                 THEN Some(IntCell(0 - DigitsValue(Tail(s))))
            ELSE None
    ELSE None

\* the plausibility bounds of line 78
ValueMin == 0
ValueMax == 500

in_range_exclusive(v) ==
    /\ ~IsNone(v)
    /\ Get(v).int > ValueMin
    /\ Get(v).int < ValueMax

\* (value >= 0) & (value <= 500) on one numeric cell; a comparison with NaN
\* is False
in_range(v) ==
    /\ ~IsNone(v)
    /\ Get(v).int >= ValueMin
    /\ Get(v).int <= ValueMax

-----------------------------------------------------------------------------
(* Parked values: the variables of the components a specification does not *)
(* run stay at these values.                                               *)

EmptyTable == [cols |-> <<>>, rows |-> <<>>]

XParked ==
    /\ xpc = "off" /\ station = <<>> /\ ing_station_id = <<>>
    /\ app_station_id = <<>> /\ ing_name = <<>> /\ budget = 0
IParked ==
    /\ ipc = "off" /\ archive = [ok |-> FALSE, members |-> <<>>]
    /\ files = <<>> /\ fi = 0 /\ dfs = <<>> /\ outcome = <<>>
    /\ concatenated = EmptyTable /\ data = EmptyTable /\ saved = None
AParked ==
    /\ apc = "off" /\ parquet = EmptyTable /\ df = EmptyTable
    /\ STATION_NAMES = STATION_NAMES_literal
    /\ sel = None /\ df_filt = <<>> /\ heat_df = {} /\ views = {} /\ rerun = FALSE

-----------------------------------------------------------------------------
(* SpecExtract: the two extract_station_id functions applied to one        *)
(* station column, as data_prepare.py:93,104 and app.py:58 apply them.     *)

\* bound: fragments appended to the station code under construction
MaxFragments == 4

S_scenario ==
    <<"D","E","/","S","P","O",".","D","E","_","D","E","B","E","0","1","0",
      "_","P","M","2","_","d","a","t","a","G","r","o","u","p","2">>

\* the station columns construction starts from
InitialColumns ==
    { <<>>, <<Some(StrCell(S_scenario)), None>> }

\* how the station code under construction begins
Prefixes ==
    { <<>>,
      <<"D","E","/","S","P","O",".">>,
      <<"D","E","/","S","P","O",".","D","E">> }

Fragments ==
    { <<".">>, <<"_">>, S_DEBE010,
      <<"D","E","X","Y","9","9","9">>,
      <<"d","e","b","e","0","1","0">>,
      <<"_","P","M","2","_","d","a","t","a","G","r","o","u","p","2">> }

XInit ==
    /\ xpc = "init"
    /\ station \in InitialColumns
    /\ ing_station_id = <<>> /\ app_station_id = <<>> /\ ing_name = <<>>
    /\ budget = MaxFragments

\* a further row, whose station code is built by AppendFragment
StartRow(prefix) ==
    /\ xpc = "init"
    /\ xpc' = "build"
    /\ station' = Append(station, Some(StrCell(prefix)))
    /\ UNCHANGED <<ing_station_id, app_station_id, ing_name, budget>>

AppendFragment(f) ==
    /\ xpc = "build"
    /\ budget > 0
    /\ budget' = budget - 1
    /\ LET n == Len(station)
       IN  station' = [station EXCEPT ![n] = Some(StrCell(Get(station[n]).str \o f))]
    /\ UNCHANGED <<xpc, ing_station_id, app_station_id, ing_name>>

\* data_prepare.py:93 and :104
IngestDerive ==
    /\ xpc \in {"init", "build"}
    /\ xpc' = "ingested"
    /\ ing_station_id' = [i \in DOMAIN station |-> extract_station_id_ingest(station[i])]
    /\ ing_name' = [i \in DOMAIN station |-> MapCell(station_names, ing_station_id'[i])]
    /\ UNCHANGED <<station, app_station_id, budget>>

\* app.py:58, on the station column ingestion persisted
AppDerive ==
    /\ xpc = "ingested"
    /\ xpc' = "applied"
    /\ app_station_id' = [i \in DOMAIN station |-> extract_station_id_app(station[i])]
    /\ UNCHANGED <<station, ing_station_id, ing_name, budget>>

InitExtract == XInit /\ IParked /\ AParked

NextExtract ==
    \/ (\E prefix \in Prefixes : StartRow(prefix)) /\ UNCHANGED <<ivars, avars>>
    \/ (\E f \in Fragments : AppendFragment(f)) /\ UNCHANGED <<ivars, avars>>
    \/ IngestDerive /\ UNCHANGED <<ivars, avars>>
    \/ AppDerive /\ UNCHANGED <<ivars, avars>>

SpecExtract == InitExtract /\ [][NextExtract]_vars

-----------------------------------------------------------------------------
(* SpecIngest: one run of data_prepare.py                                  *)

\* bound: table files in the archive
MaxFiles == 3

T1 == Ts(2024, 1, 1, 0)
T2 == Ts(2024, 1, 2, 0)
T3 == Ts(2024, 2, 1, 0)
S_plain == <<"D","E","/","S","P","O",".","D","E","B","E","0","3","4","_","P","M","2">>
S_other == <<"D","E","/","S","P","O",".","D","E","X","Y","9","9","9","_","P","M","2">>
U_ug == Some(StrCell(<<"u","g",".","m","-","3">>))
P_6001 == Some(IntCell(6001))

\* the table files an archive may hold (file names are path.name)
FileA ==
    [name |-> <<"a",".","p","a","r","q","u","e","t">>,
     cols |-> <<<<"S","a","m","p","l","i","n","g","p","o","i","n","t">>,
             <<"P","o","l","l","u","t","a","n","t">>, <<"S","t","a","r","t">>,
             <<"E","n","d">>, <<"V","a","l","u","e">>, <<"U","n","i","t">>>>,
     rows |-> <<
        Row(0, <<Some(StrCell(S_scenario)), P_6001, Some(T1), Some(T2), Some(IntCell(12)), U_ug>>),
        Row(1, <<Some(StrCell(S_plain)), P_6001, Some(T2), Some(T3), Some(IntCell(0 - 1)), U_ug>>),
        Row(2, <<Some(StrCell(S_plain)), P_6001, None, None, Some(IntCell(500)), U_ug>>) >>]
FileB ==
    [name |-> <<"b",".","p","a","r","q","u","e","t">>,
     cols |-> <<<<"S","a","m","p","l","i","n","g","p","o","i","n","t">>,
             <<"V","a","l","u","e">>, <<"V","a","l","i","d","i","t","y">>>>,
     rows |-> <<
        Row(0, <<Some(StrCell(S_other)), Some(IntCell(0)), Some(IntCell(1))>>),
        Row(1, <<None, Some(IntCell(501)), Some(IntCell(1))>>),
        Row(2, <<Some(StrCell(S_plain)), None, Some(IntCell(0 - 1))>>) >>]
FileC ==
    [name |-> <<"c",".","p","a","r","q","u","e","t">>,
     cols |-> <<<<"S","a","m","p","l","i","n","g","P","o","i","n","t","P","o","l","l","u","t","a","n","t">>,
             <<"v","a","l","u","e">>, <<"E","N","D">>>>,
     rows |-> <<
        Row(0, <<Some(StrCell(S_plain)), Some(StrCell(<<"7">>)), Some(T2)>>),
        Row(1, <<Some(StrCell(S_other)), Some(StrCell(<<"n","/","a">>)), Some(T2)>>),
        Row(2, <<Some(StrCell(S_scenario)), Some(StrCell(<<"-","3">>)), None>>),
        Row(3, <<Some(StrCell(S_plain)), Some(StrCell(<<"5","0","0">>)), None>>) >>]
FileD ==
    [name |-> <<"d",".","p","a","r","q","u","e","t">>,
     cols |-> <<<<"S","a","m","p","l","i","n","g","p","o","i","n","t">>,
             <<"A","i","r","P","o","l","l","u","t","a","n","t">>,
             <<"s","t","a","r","t">>, <<"v","a","l","u","e","s">>,
             <<"r","e","s","t","a","r","t">>>>,
     rows |-> <<
        Row(0, <<Some(StrCell(S_plain)), P_6001, Some(T3), Some(IntCell(3)), None>>) >>]
FileE ==
    [name |-> <<"a",".","p","a","r","q","u","e","t">>,
     cols |-> <<<<"S","a","m","p","l","i","n","g","p","o","i","n","t">>,
             <<"S","t","a","r","t">>, <<"V","a","l","u","e">>>>,
     rows |-> <<
        Row(0, <<Some(StrCell(S_plain)),
                Some(StrCell(<<"y","e","s","t","e","r","d","a","y">>)),
                Some(IntCell(5))>>) >>]
FileF ==
    [name |-> <<"f",".","p","a","r","q","u","e","t">>,
     cols |-> <<<<"P","o","l","l","u","t","a","n","t">>,
             <<"S","t","a","r","t">>, <<"V","a","l","u","e">>>>,
     rows |-> <<>>]

TableFiles == {FileA, FileB, FileC, FileD, FileE, FileF}

SeqsUpTo(S, n) == UNION {[1..k -> S] : k \in 0..n}

IInit ==
    /\ ipc = "start"
    /\ archive \in [ok : {TRUE}, members : SeqsUpTo(TableFiles, MaxFiles)]
                   \cup {[ok |-> FALSE, members |-> <<>>]}
    /\ files = <<>> /\ fi = 0 /\ dfs = <<>> /\ outcome = <<>>
    /\ concatenated = EmptyTable /\ data = EmptyTable /\ saved = None

\* lines 20-26: an archive that cannot be opened ends the run with the
\* exception of zipfile.ZipFile
ExtractArchive ==
    /\ ipc = "start"
    /\ IF archive.ok
       THEN /\ files' = archive.members
            /\ fi' = 1
            /\ ipc' = "load"
       ELSE /\ ipc' = "error"
            /\ UNCHANGED <<files, fi>>
    /\ UNCHANGED <<archive, dfs, outcome, concatenated, data, saved>>

\* lines 29-33: pd.read_parquet(path) succeeds
ReadParquetOk ==
    /\ ipc = "load"
    /\ fi <= Len(files)
    /\ dfs' = Append(dfs, TagSourceFile(files[fi]))
    /\ outcome' = Append(outcome, TRUE)
    /\ fi' = fi + 1
    /\ UNCHANGED <<ipc, archive, files, concatenated, data, saved>>

\* lines 34-35: pd.read_parquet(path) raises; the file is reported and skipped
ReadParquetFails ==
    /\ ipc = "load"
    /\ fi <= Len(files)
    /\ outcome' = Append(outcome, FALSE)
    /\ fi' = fi + 1
    /\ UNCHANGED <<ipc, archive, files, dfs, concatenated, data, saved>>

\* lines 37-40
Concat ==
    /\ ipc = "load"
    /\ fi > Len(files)
    /\ IF dfs = <<>>
       THEN /\ ipc' = "abort"
            /\ UNCHANGED <<data, concatenated>>
       ELSE /\ data' = concat(dfs)
            /\ concatenated' = data'
            /\ ipc' = "rename"
    /\ UNCHANGED <<archive, files, fi, dfs, outcome, saved>>

\* lines 45-61
Rename ==
    /\ ipc = "rename"
    /\ data' = rename(data)
    /\ ipc' = "dates"
    /\ UNCHANGED <<archive, files, fi, dfs, outcome, concatenated, saved>>

\* lines 63-68.  With two columns renamed to datetime_start,
\* data["datetime_start"] is a frame and pd.to_datetime raises.
Dates ==
    /\ ipc = "dates"
    /\ IF ~HasColumn(data, C_datetime_start)
       THEN /\ ipc' = "clean"
            /\ UNCHANGED data
       ELSE IF \/ ~IsSeries(data, C_datetime_start)
               \/ \E i \in DOMAIN data.rows :
                     ToDatetimeRaises(Cell(data, data.rows[i], C_datetime_start))
       THEN /\ ipc' = "error"
            /\ UNCHANGED data
       ELSE /\ ipc' = "clean"
            /\ LET start(r) == Cell(data, r, C_datetime_start)
                   d1 == SetColumn(data, C_date,
                           [i \in DOMAIN data.rows |->
                               DtDate(start(data.rows[i]))])
                   d2 == SetColumn(d1, C_year, [i \in DOMAIN d1.rows |-> DtYear(start(d1.rows[i]))])
               IN  data' = SetColumn(d2, C_month,
                       [i \in DOMAIN d2.rows |->
                           DtMonth(start(d2.rows[i]))])
    /\ UNCHANGED <<archive, files, fi, dfs, outcome, concatenated, saved>>

\* lines 73-79.  Without a value column data["value"] raises KeyError; with
\* two, it is a frame and pd.to_numeric raises TypeError.
Clean ==
    /\ ipc = "clean"
    /\ IF ~IsSeries(data, C_value)
       THEN /\ ipc' = "error"
            /\ UNCHANGED data
       ELSE /\ ipc' = "station"
            /\ LET numeric == SetColumn(data, C_value,

                                          [i \in DOMAIN data.rows |->
                                              to_numeric(Cell(data, data.rows[i], C_value))])
               IN  data' = [numeric EXCEPT !.rows =
                       SelectSeq(numeric.rows,
                                  LAMBDA r : in_range(Cell(numeric, r, C_value)))]
    /\ UNCHANGED <<archive, files, fi, dfs, outcome, concatenated, saved>>

\* line 93.  Without a station column data["station"] raises KeyError; with
\* two, the frame's apply yields a Series indexed by the duplicated column
\* name, and assigning it raises ValueError.
StationId ==
    /\ ipc = "station"
    /\ IF ~IsSeries(data, C_station)
       THEN /\ ipc' = "error"
            /\ UNCHANGED data
       ELSE /\ ipc' = "names"
            /\ data' = SetColumn(data, C_station_id,

                           [i \in DOMAIN data.rows |->
                               extract_station_id_ingest(Cell(data, data.rows[i], C_station))])
    /\ UNCHANGED <<archive, files, fi, dfs, outcome, concatenated, saved>>

\* line 104
StationName ==
    /\ ipc = "names"
    /\ data' = SetColumn(data, C_station_name,

                   [i \in DOMAIN data.rows |->
                       MapCell(station_names, Cell(data, data.rows[i], C_station_id))])
    /\ ipc' = "save"
    /\ UNCHANGED <<archive, files, fi, dfs, outcome, concatenated, saved>>

\* lines 109-114
Save ==
    /\ ipc = "save"
    /\ saved' = Some(data)
    /\ ipc' = "done"
    /\ UNCHANGED <<archive, files, fi, dfs, outcome, concatenated, data>>

InitIngest == IInit /\ XParked /\ AParked

NextIngest ==
    \/ ExtractArchive /\ UNCHANGED <<xvars, avars>>
    \/ ReadParquetOk /\ UNCHANGED <<xvars, avars>>
    \/ ReadParquetFails /\ UNCHANGED <<xvars, avars>>
    \/ Concat /\ UNCHANGED <<xvars, avars>>
    \/ Rename /\ UNCHANGED <<xvars, avars>>
    \/ Dates /\ UNCHANGED <<xvars, avars>>
    \/ Clean /\ UNCHANGED <<xvars, avars>>
    \/ StationId /\ UNCHANGED <<xvars, avars>>
    \/ StationName /\ UNCHANGED <<xvars, avars>>
    \/ Save /\ UNCHANGED <<xvars, avars>>

SpecIngest == InitIngest /\ [][NextIngest]_vars


-----------------------------------------------------------------------------
(* app.py: load_data                                                       *)

\* base_cols
base_cols == <<C_station, C_pollutant, C_value, C_date>>

\* pd.to_datetime on one cell of the date column: a date becomes the
\* timestamp of its midnight, a missing cell NaT
to_datetime(cell) ==
    IF IsNone(cell) THEN None
    ELSE IF "date" \in DOMAIN Get(cell)
         THEN Some(Ts(Get(cell).date.y, Get(cell).date.m, Get(cell).date.d, 0))
    ELSE cell

\* .astype(str) on one cell of the pollutant column
astype_str(cell) ==
    IF IsNone(cell) THEN Some(StrCell(S_None))
    ELSE IF "int" \in DOMAIN Get(cell) THEN Some(StrCell(Decimal(Get(cell).int)))
    ELSE cell

resolve_name_no_fallback(dict, id) == MapCell(dict, id)

\* lines 61-64: map the identifier through the directory, then fill the
\* names still missing with the identifier
resolve_name(dict, id) == FillnaCell(MapCell(dict, id), id)

\* lines 49-66
load_data_frame(pq, dict) ==
    LET d1 == SetColumn(pq, C_date,
            [i \in DOMAIN pq.rows |->
                to_datetime(Cell(pq, pq.rows[i], C_date))])
        d2 == SetColumn(d1, C_value,
                [i \in DOMAIN d1.rows |->
                    to_numeric(Cell(d1, d1.rows[i], C_value))])
        d3 == SetColumn(d2, C_pollutant,
                [i \in DOMAIN d2.rows |->
                    astype_str(Cell(d2, d2.rows[i], C_pollutant))])
        d4 == [d3 EXCEPT !.rows =
                  SelectSeq(d3.rows, LAMBDA r : in_range(Cell(d3, r, C_value)))]
        d5 == SetColumn(d4, C_station_id,

                          [i \in DOMAIN d4.rows |->
                              extract_station_id_app(Cell(d4, d4.rows[i], C_station))])
    IN  SetColumn(d5, C_station_name,
            [i \in DOMAIN d5.rows |-> resolve_name(dict, Cell(d5, d5.rows[i], C_station_id))])

-----------------------------------------------------------------------------
(* app.py: the sidebar and the filter                                      *)

\* order of dates
DateLeq(a, b) ==
    \/ a.y < b.y
    \/ a.y = b.y /\ a.m < b.m
    \/ a.y = b.y /\ a.m = b.m /\ a.d <= b.d

\* order of str, by code point (digits before upper case before lower case)
CodePoints == DigitSeq \o UpperSeq \o LowerSeq
Ord(c) == CHOOSE i \in DOMAIN CodePoints : CodePoints[i] = c
RECURSIVE StrLess(_, _)
StrLess(a, b) ==
    IF b = <<>> THEN FALSE
    ELSE IF a = <<>> THEN TRUE
    ELSE IF Head(a) = Head(b) THEN StrLess(Tail(a), Tail(b))
    ELSE Ord(Head(a)) < Ord(Head(b))

\* .dt.date of a cell of the date column
DateOf(cell) == Get(cell).ts

\* sorted(df["pollutant"].unique()), as a set
pollutant_codes(t) == {Get(Cell(t, t.rows[i], C_pollutant)).str : i \in DOMAIN t.rows}
\* the first option of the select box
FirstCode(codes) == CHOOSE c \in codes : \A o \in codes : o = c \/ StrLess(c, o)
\* sorted(df["station_name"].dropna().unique()), as a set
station_options(t) ==
    {Get(Cell(t, t.rows[i], C_station_name)) :
        i \in {j \in DOMAIN t.rows : ~IsNone(Cell(t, t.rows[j], C_station_name))}}
\* the dates of the date column that are not NaT
known_dates(t) ==
    {[y |-> DateOf(Cell(t, t.rows[i], C_date)).y,
      m |-> DateOf(Cell(t, t.rows[i], C_date)).m,
      d |-> DateOf(Cell(t, t.rows[i], C_date)).d] :
        i \in {j \in DOMAIN t.rows : ~IsNone(Cell(t, t.rows[j], C_date))}}
MinDate(ds) == CHOOSE a \in ds : \A b \in ds : DateLeq(a, b)
MaxDate(ds) == CHOOSE a \in ds : \A b \in ds : DateLeq(b, a)

mask_exclusive_dates(t, r, s) ==
    /\ Get(Cell(t, r, C_pollutant)).str = s.pollutant_sel
    /\ ~IsNone(Cell(t, r, C_station_name))
    /\ Get(Cell(t, r, C_station_name)) \in s.stations_sel
    /\ ~IsNone(Cell(t, r, C_date))
    /\ LET d == DateOf(Cell(t, r, C_date))
       IN  ~DateLeq(d, s.date_from) /\ ~DateLeq(s.date_to, d)

mask_keeping_nat(t, r, s) ==
    /\ Get(Cell(t, r, C_pollutant)).str = s.pollutant_sel
    /\ ~IsNone(Cell(t, r, C_station_name))
    /\ Get(Cell(t, r, C_station_name)) \in s.stations_sel
    /\ \/ IsNone(Cell(t, r, C_date))
       \/ LET d == DateOf(Cell(t, r, C_date))
          IN  DateLeq(s.date_from, d) /\ DateLeq(d, s.date_to)

\* lines 136-140: NaN is in no selection and NaT is between no two dates
mask(t, r, s) ==
    /\ Get(Cell(t, r, C_pollutant)).str = s.pollutant_sel
    /\ ~IsNone(Cell(t, r, C_station_name))
    /\ Get(Cell(t, r, C_station_name)) \in s.stations_sel
    /\ ~IsNone(Cell(t, r, C_date))
    /\ LET d == DateOf(Cell(t, r, C_date))
       IN  DateLeq(s.date_from, d) /\ DateLeq(d, s.date_to)

\* the groups of groupby(["station_name", "date"]): rows with a missing key
\* belong to no group
group_keys(t, rows) ==
    {<<Cell(t, rows[i], C_station_name), Cell(t, rows[i], C_date)>> :
        i \in {j \in DOMAIN rows :
                  /\ ~IsNone(Cell(t, rows[j], C_station_name))
                  /\ ~IsNone(Cell(t, rows[j], C_date))}}

RECURSIVE SumValues(_, _)
SumValues(t, rows) ==
    IF rows = <<>> THEN 0
    ELSE Get(Cell(t, Head(rows), C_value)).int + SumValues(t, Tail(rows))

\* lines 221-226: one row per group, its mean kept as the pair sum / count
heat_frame(t, rows) ==
    {LET members == SelectSeq(rows, LAMBDA r :
                        <<Cell(t, r, C_station_name), Cell(t, r, C_date)>> = k)
     IN  [station_name |-> k[1], date |-> k[2],
          sum |-> SumValues(t, members), count |-> Len(members)] :
        k \in group_keys(t, rows)}

-----------------------------------------------------------------------------
(* SpecApp: a presentation session                                         *)

\* bound: rows of data_combined.parquet
MaxRows == 2

D1 == Some(DateCell(2024, 1, 1))
D3 == Some(DateCell(2024, 1, 3))
S_unknown == <<"D","E","/","S","P","O",".","D","E","_","D","E","X","Y","9","9","9","_","P","M","2","_","d","a","t","a","G","r","o","u","p","2">>

\* the cells <<station, pollutant, value, date>> a persisted row may hold
ParquetCells ==
    { <<Some(StrCell(S_scenario)), P_6001, Some(IntCell(12)), D1>>,
      <<Some(StrCell(S_unknown)), P_6001, Some(IntCell(500)), D3>>,
      <<Some(StrCell(S_scenario)), Some(IntCell(5)), Some(IntCell(7)), D1>>,
      <<Some(StrCell(S_plain)), P_6001, Some(IntCell(3)), D1>>,
      <<Some(StrCell(S_scenario)), P_6001, Some(IntCell(501)), D1>>,
      <<Some(StrCell(S_scenario)), P_6001, Some(IntCell(20)), None>> }

ParquetTables ==
    { [cols |-> base_cols, rows |-> [i \in DOMAIN cells |-> Row(i - 1, cells[i])]] :
        cells \in SeqsUpTo(ParquetCells, MaxRows) }
    \cup
    \* the output of an ingestion run whose input had no interval start
    { [cols |-> <<C_station, C_pollutant, C_value>>,
       rows |-> <<Row(0, <<Some(StrCell(S_scenario)), P_6001, Some(IntCell(12))>>)>>] }

\* the days the date slider can stop at
Calendar ==
    { [y |-> 2024, m |-> 1, d |-> 1], [y |-> 2024, m |-> 1, d |-> 2],
      [y |-> 2024, m |-> 1, d |-> 3] }

AInit ==
    /\ apc = "start"
    /\ parquet \in ParquetTables
    /\ df = EmptyTable
    /\ STATION_NAMES = STATION_NAMES_literal
    /\ sel = None /\ df_filt = <<>> /\ heat_df = {} /\ views = {} /\ rerun = FALSE

\* lines 38-69: the first run loads the data
LoadData ==
    /\ apc = "start"
    /\ IF \E c \in DOMAIN base_cols : ~HasColumn(parquet, base_cols[c])
       THEN /\ views' = {"error_missing_columns"}
            /\ apc' = "failed"
            /\ UNCHANGED df
       ELSE /\ df' = load_data_frame(parquet, STATION_NAMES)
            /\ apc' = "sidebar"
            /\ UNCHANGED views
    /\ UNCHANGED <<parquet, STATION_NAMES, sel, df_filt, heat_df, rerun>>

\* the widget values a run can read: the defaults on the first run, any
\* values the widgets offer on a later one
Selections ==
    LET codes == pollutant_codes(df)
        names == station_options(df)
        lo == MinDate(known_dates(df))
        hi == MaxDate(known_dates(df))
        days == {d \in Calendar : DateLeq(lo, d) /\ DateLeq(d, hi)}
    IN  IF ~rerun
        THEN {[pollutant_sel |-> FirstCode(codes), stations_sel |-> names,
               date_from |-> lo, date_to |-> hi]}
        ELSE {s \in [pollutant_sel : codes, stations_sel : SUBSET names,
                     date_from : days, date_to : days] :
                 DateLeq(s.date_from, s.date_to)}

\* lines 96-130.  The select box of an empty frame has no option and
\* code_by_label[None] raises KeyError; with every date NaT the slider is
\* given NaT bounds and raises.
Sidebar ==
    /\ apc = "sidebar"
    /\ IF df.rows = <<>>
       THEN /\ apc' = "failed"
            /\ UNCHANGED <<sel, views>>
       ELSE IF station_options(df) = {}
       THEN /\ views' = views \cup {"error_no_stations"}
            /\ apc' = "stopped"
            /\ UNCHANGED sel
       ELSE IF known_dates(df) = {}
       THEN /\ apc' = "failed"
            /\ UNCHANGED <<sel, views>>
       ELSE /\ \E s \in Selections : sel' = Some(s)
            /\ apc' = "filter"
            /\ UNCHANGED views
    /\ UNCHANGED <<parquet, df, STATION_NAMES, df_filt, heat_df, rerun>>

\* lines 136-146
Filter ==
    /\ apc = "filter"
    /\ df_filt' = SelectSeq(df.rows, LAMBDA r : mask(df, r, Get(sel)))
    /\ IF df_filt' = <<>>
       THEN /\ views' = views \cup {"warning_empty"}
            /\ apc' = "stopped"
       ELSE /\ apc' = "charts"
            /\ UNCHANGED views
    /\ UNCHANGED <<parquet, df, STATION_NAMES, sel, heat_df, rerun>>

\* lines 148-212: statistics table, time series and bar chart
Charts ==
    /\ apc = "charts"
    /\ views' = views \cup {"stats_table", "time_series", "bar_chart"}
    /\ apc' = "heatmap"
    /\ UNCHANGED <<parquet, df, STATION_NAMES, sel, df_filt, heat_df, rerun>>

\* lines 218-268
Heatmap ==
    /\ apc = "heatmap"
    /\ heat_df' = heat_frame(df, df_filt)
    /\ IF heat_df' = {}
       THEN views' = views \cup {"heatmap_info"}
       ELSE views' = views \cup {"heatmap"}
    /\ apc' = "rows"
    /\ UNCHANGED <<parquet, df, STATION_NAMES, sel, df_filt, rerun>>

\* lines 275-278
RowsTable ==
    /\ apc = "rows"
    /\ views' = views \cup {"rows_table"}
    /\ apc' = "idle"
    /\ UNCHANGED <<parquet, df, STATION_NAMES, sel, df_filt, heat_df, rerun>>

\* a widget changes: the script runs again from the top, load_data() answers
\* from its cache and the page is drawn anew
Rerun ==
    /\ apc \in {"idle", "stopped"}
    /\ apc' = "sidebar"
    /\ rerun' = TRUE
    /\ views' = {}
    /\ df_filt' = <<>>
    /\ heat_df' = {}
    /\ UNCHANGED <<parquet, df, STATION_NAMES, sel>>

InitApp == AInit /\ XParked /\ IParked

NextApp ==
    \/ LoadData /\ UNCHANGED <<xvars, ivars>>
    \/ Sidebar /\ UNCHANGED <<xvars, ivars>>
    \/ Filter /\ UNCHANGED <<xvars, ivars>>
    \/ Charts /\ UNCHANGED <<xvars, ivars>>
    \/ Heatmap /\ UNCHANGED <<xvars, ivars>>
    \/ RowsTable /\ UNCHANGED <<xvars, ivars>>
    \/ Rerun /\ UNCHANGED <<xvars, ivars>>

SpecApp == InitApp /\ [][NextApp]_vars


-----------------------------------------------------------------------------
(* Properties of the extractors                                            *)

Min(S) == CHOOSE m \in S : \A n \in S : m <= n

\* s[i..i+6] has the form "DE" + two uppercase letters + three digits
IsIdentifierAt(s, i) ==
    /\ i >= 1 /\ i + 6 <= Len(s)
    /\ s[i] = "D" /\ s[i + 1] = "E"
    /\ s[i + 2] \in ClassAZ /\ s[i + 3] \in ClassAZ
    /\ s[i + 4] \in ClassDigit /\ s[i + 5] \in ClassDigit /\ s[i + 6] \in ClassDigit

\* where an identifier preceded by a dot starts
DotOccurrences(s) ==
    {i \in 2..Len(s) : s[i - 1] = "." /\ IsIdentifierAt(s, i)}
\* where an identifier enclosed by underscores starts
UnderscoreOccurrences(s) ==
    {i \in 2..Len(s) :
        /\ s[i - 1] = "_" /\ IsIdentifierAt(s, i)
        /\ i + 7 <= Len(s) /\ s[i + 7] = "_"}

\* result is null iff there is no occurrence, and is otherwise exactly the
\* 7 characters of the first occurrence
IsFirstOccurrence(cell, result, occ) ==
    /\ IsNone(result) <=> occ = {}
    /\ occ # {} =>
         result = Some(StrCell(SubSeq(PyStr(cell), Min(occ), Min(occ) + 6)))

\* C2: for a record whose raw station code is
\* "DE/SPO.DE_DEBE010_PM2_dataGroup2", ingestion derives the identifier
\* "DEBE010" and the station directory resolves its name to the DEBE010 entry.
C2_ScenarioIngest ==
    xpc \in {"ingested", "applied"} =>
        \A i \in DOMAIN station :
            station[i] = Some(StrCell(S_scenario)) =>
                /\ ing_station_id[i] = Some(StrCell(S_DEBE010))
                /\ ing_name[i] = Some(N_DEBE010)

C9_ExtractorsAgree ==
    xpc = "applied" =>
        \A i \in DOMAIN station :
            (~IsNone(ing_station_id[i]) /\ ~IsNone(app_station_id[i])) =>
                ing_station_id[i] = app_station_id[i]

-----------------------------------------------------------------------------
(* Properties of the ingestion run                                         *)

\* the decimal spelling of every number of the plausible range
DecimalOf == [n \in 0..500 |-> Decimal(n)]

\* the raw cell is the number n, or text that spells it in decimal
Spells(raw, n) ==
    \/ raw = Some(IntCell(n))
    \/ raw = Some(StrCell(DecimalOf[n]))

\* C1: a row of the concatenated input is present in the ingestion output
\* if and only if its value, after numeric coercion, is non-missing and
\* satisfies 0 <= value <= 500; no row is clamped into the range, and the
\* value of every retained row is its own value.
C1_RangeFilter ==
    ipc = "done" =>
        LET out == Get(saved)
            vc == Col(out, C_value)
        IN  /\ \A k \in DOMAIN concatenated.rows :
                 LET raw == concatenated.rows[k].cells[vc]
                     kept == {j \in DOMAIN out.rows :
                                 out.rows[j].idx = concatenated.rows[k].idx}
                     plausible == {n \in 0..500 : Spells(raw, n)}
                 IN  /\ (kept # {}) <=> (plausible # {})
                     /\ Cardinality(kept) <= 1
                     /\ \A j \in kept : \A n \in plausible :
                            out.rows[j].cells[vc] = Some(IntCell(n))
            /\ \A j \in DOMAIN out.rows :
                 \E k \in DOMAIN concatenated.rows :
                     out.rows[j].idx = concatenated.rows[k].idx

\* a finished run whose input held a negative, a too large and a missing
\* value, all gone from the output, and both end points of the range, kept
C1_Witness ==
    /\ ipc = "done"
    /\ LET out == Get(saved)
           vc == Col(out, C_value)
           raws == {concatenated.rows[k].cells[vc] : k \in DOMAIN concatenated.rows}
           outs == {out.rows[j].cells[vc] : j \in DOMAIN out.rows}
       IN  /\ {None, Some(IntCell(0 - 1)), Some(IntCell(501))} \subseteq raws
           /\ {Some(IntCell(0)), Some(IntCell(500))} \subseteq outs
           /\ Len(out.rows) < Len(concatenated.rows)

\* rows of the loaded files that precede file i in the combined table
RECURSIVE RowsBefore(_)
RowsBefore(i) ==
    IF i <= 1 THEN 0
    ELSE RowsBefore(i - 1)
         + (IF outcome[i - 1] THEN Len(files[i - 1].rows) ELSE 0)

\* C5: once the archive has been extracted, a failing file is skipped
\* without aborting the loop, the run aborts if and only if zero files were
\* loaded, and otherwise the combined table is exactly the rows of the
\* successfully loaded files, in file order, each tagged with its file name.
C5_BestEffort ==
    (archive.ok /\ ipc \notin {"start", "load"}) =>
        /\ Len(outcome) = Len(files)
        /\ (ipc = "abort") <=> (\A i \in DOMAIN outcome : ~outcome[i])
        /\ ipc # "abort" =>
             /\ Len(concatenated.rows) = RowsBefore(Len(files) + 1)
             /\ \A i \in DOMAIN files : outcome[i] =>
                  \A j \in DOMAIN files[i].rows :
                     LET r == concatenated.rows[RowsBefore(i) + j]
                     IN  /\ r.cells[Col(concatenated, C_source_file)]
                              = Some(StrCell(files[i].name))
                         /\ \A c \in DOMAIN files[i].cols :
                              r.cells[Col(concatenated, files[i].cols[c])]
                                = files[i].rows[j].cells[c]

\* a run that skipped a file, loaded two others with different rows and
\* went on past the concatenation
C5_Witness ==
    /\ archive.ok
    /\ ipc = "done"
    /\ \E i, j, k \in DOMAIN outcome :
          /\ ~outcome[i] /\ outcome[j] /\ outcome[k] /\ j < k
          /\ files[j] # files[k]
          /\ files[j].rows # <<>> /\ files[k].rows # <<>>

\* C6: every record retained in the ingestion output has a non-null date.
C6_NonNullDate ==
    ipc = "done" =>
        LET out == Get(saved)
        IN  \A j \in DOMAIN out.rows :
               /\ HasColumn(out, C_date)
               /\ ~IsNone(Cell(out, out.rows[j], C_date))

\* C8: with the name lower-cased and the rules tried in order, a name
\* starting with "samplingpoint" becomes station; otherwise one containing
\* "pollutant" becomes pollutant; otherwise one equal to "value", "start" or
\* "end" becomes value, datetime_start or datetime_end; every other column
\* keeps its name; no cell value and no column position changes.
C8_Renaming ==
    ipc = "dates" =>
        /\ Len(data.cols) = Len(concatenated.cols)
        /\ data.rows = concatenated.rows
        /\ \A c \in DOMAIN concatenated.cols :
             LET old == concatenated.cols[c]
                 new == data.cols[c]
                 low == Lower(old)
                 r1 == StartsWith(low, <<"s","a","m","p","l","i","n","g","p","o","i","n","t">>)
                 r2 == ~r1 /\ Contains(low, <<"p","o","l","l","u","t","a","n","t">>)
                 r3 == ~r1 /\ ~r2 /\ low = <<"v","a","l","u","e">>
                 r4 == ~r1 /\ ~r2 /\ low = <<"s","t","a","r","t">>
                 r5 == ~r1 /\ ~r2 /\ low = <<"e","n","d">>
             IN  /\ r1 => new = <<"s","t","a","t","i","o","n">>
                 /\ r2 => new = <<"p","o","l","l","u","t","a","n","t">>
                 /\ r3 => new = <<"v","a","l","u","e">>
                 /\ r4 => new = <<"d","a","t","e","t","i","m","e","_","s","t","a","r","t">>
                 /\ r5 => new = <<"d","a","t","e","t","i","m","e","_","e","n","d">>
                 /\ ~(r1 \/ r2 \/ r3 \/ r4 \/ r5) => new = old

\* a renamed table with a column that meets the first two rules at once, a
\* column of each other rule in upper or mixed case, and unmatched columns
C8_Witness ==
    /\ ipc = "dates"
    /\ concatenated.rows # <<>>
    /\ {<<"S","a","m","p","l","i","n","g","P","o","i","n","t","P","o","l","l","u","t","a","n","t">>,
            <<"A","i","r","P","o","l","l","u","t","a","n","t">>,
            <<"E","N","D">>, <<"s","t","a","r","t">>,
        <<"v","a","l","u","e">>, <<"v","a","l","u","e","s">>,
                <<"r","e","s","t","a","r","t">>,
                <<"s","o","u","r","c","e","_","f","i","l","e">>}
          \subseteq Range(concatenated.cols)
    /\ {<<"v","a","l","u","e","s">>, <<"r","e","s","t","a","r","t">>,
            <<"s","o","u","r","c","e","_","f","i","l","e">>} \subseteq Range(data.cols)


-----------------------------------------------------------------------------
(* Properties of the presentation session                                  *)

\* load_data() has returned its frame
Loaded == HasColumn(df, C_station_name)

\* C4: for every loaded row, a station_id that is one of the five directory
\* keys has the directory's name for that key as station_name, any other
\* non-null station_id is its own station_name, and the directory is never
\* mutated.
C4_NameResolution ==
    /\ STATION_NAMES = STATION_NAMES_literal
    /\ Loaded =>
         \A i \in DOMAIN df.rows :
            LET id == Cell(df, df.rows[i], C_station_id)
                name == Cell(df, df.rows[i], C_station_name)
            IN  /\ id = Some(StrCell(S_DEBE010)) => name = Some(N_DEBE010)
                /\ id = Some(StrCell(S_DEBE034)) => name = Some(N_DEBE034)
                /\ id = Some(StrCell(S_DEBE051)) => name = Some(N_DEBE051)
                /\ id = Some(StrCell(S_DEBE065)) => name = Some(N_DEBE065)
                /\ id = Some(StrCell(S_DEBE068)) => name = Some(N_DEBE068)
                /\ (/\ ~IsNone(id)
                    /\ Get(id).str \notin {S_DEBE010, S_DEBE034, S_DEBE051,
                                           S_DEBE065, S_DEBE068})
                      => name = id

\* a loaded frame with a row of a directory key and a row of another
\* identifier
C4_Witness ==
    /\ Loaded
    /\ \E i, j \in DOMAIN df.rows :
          /\ Cell(df, df.rows[i], C_station_id) = Some(StrCell(S_DEBE010))
          /\ Cell(df, df.rows[j], C_station_id)
                = Some(StrCell(<<"D","E","X","Y","9","9","9">>))

ChartViews == {"stats_table", "time_series", "bar_chart", "heatmap"}
Filtered ==
    \/ apc \in {"charts", "heatmap", "rows", "idle"}
    \/ apc = "stopped" /\ "warning_empty" \in views

\* row i of the loaded frame meets the three selections
Selected(i) ==
    LET r == df.rows[i]
        s == Get(sel)
        name == Cell(df, r, C_station_name)
        date == Cell(df, r, C_date)
    IN  /\ Cell(df, r, C_pollutant) = Some(StrCell(s.pollutant_sel))
        /\ \E n \in s.stations_sel : name = Some(n)
        /\ \E d \in Calendar :
              /\ date = Some(Ts(d.y, d.m, d.d, 0))
              /\ DateLeq(s.date_from, d) /\ DateLeq(d, s.date_to)

\* C7: after any sequence of filter changes the filtered subset is exactly
\* the loaded rows whose pollutant equals the selection, whose station_name
\* is in the selected set and whose date lies within the inclusive range; if
\* it is empty the run stops with a warning and renders none of the
\* statistics table, time series, bar chart or heatmap, which are rendered
\* only when it is non-empty.
C7_FilterAndStop ==
    /\ Filtered =>
         /\ \A i \in DOMAIN df.rows :
               Selected(i) <=> (\E k \in DOMAIN df_filt : df_filt[k] = df.rows[i])
         /\ \A k \in DOMAIN df_filt : \E i \in DOMAIN df.rows : df_filt[k] = df.rows[i]
         /\ \A k, l \in DOMAIN df_filt : k < l => df_filt[k].idx < df_filt[l].idx
         /\ df_filt = <<>> =>
               /\ apc = "stopped"
               /\ "warning_empty" \in views
               /\ views \cap ChartViews = {}
         /\ apc = "idle" => {"stats_table", "time_series", "bar_chart"} \subseteq views
    /\ views \cap ChartViews # {} => (Filtered /\ df_filt # <<>>)

\* after a filter change, a selection that names stations and days but
\* matches no row of a frame that has rows: the run has stopped on the warning
C7_Witness ==
    /\ rerun
    /\ apc = "stopped"
    /\ "warning_empty" \in views
    /\ Get(sel).stations_sel # {}
    /\ Len(df.rows) >= 2
    /\ \E i \in DOMAIN df.rows :
          /\ Cell(df, df.rows[i], C_pollutant) = Some(StrCell(Get(sel).pollutant_sel))
          /\ \E n \in Get(sel).stations_sel : Cell(df, df.rows[i], C_station_name) = Some(n)

\* C10: in every run that reaches the heatmap section the station-by-date
\* aggregate is non-empty, the "insufficient data" branch is never taken and
\* the heatmap is rendered, every filtered row having a non-null
\* station_name, a non-null date and a value in [0, 500].
C10_HeatmapAlwaysRendered ==
    /\ "heatmap_info" \notin views
    /\ apc \in {"heatmap", "rows", "idle"} =>
         \A k \in DOMAIN df_filt :
            /\ ~IsNone(Cell(df, df_filt[k], C_station_name))
            /\ ~IsNone(Cell(df, df_filt[k], C_date))
            /\ \E n \in 0..500 : Cell(df, df_filt[k], C_value) = Some(IntCell(n))
    /\ apc \in {"rows", "idle"} =>
         /\ heat_df # {}
         /\ "heatmap" \in views

\* a run that has drawn the heatmap from a frame in which some row has no
\* date or no station name
C10_Witness ==
    /\ apc = "idle"
    /\ "heatmap" \in views
    /\ \E i \in DOMAIN df.rows :
          \/ IsNone(Cell(df, df.rows[i], C_date))
          \/ IsNone(Cell(df, df.rows[i], C_station_name))


=============================================================================
